---- MODULE Spec2Model ----
(***************************************************************************)
(* Model of the fingerprint capture server (main.go).                      *)
(*                                                                         *)
(* The server registers one handler, HandleCapture, on "GET /capture".     *)
(* net/http runs every request in its own goroutine, so several            *)
(* invocations of HandleCapture can be in flight at once.  An invocation   *)
(* resolves the python interpreter, runs "capture.py" as a child process   *)
(* with stdout and stderr redirected into two bytes.Buffer values, blocks  *)
(* in cmd.Run until the child is gone, and maps the outcome to an HTTP     *)
(* response.                                                               *)
(*                                                                         *)
(* Bytes are modelled as their numeric values, strings as sequences of     *)
(* bytes, paths as a root flag and a sequence of components.               *)
(***************************************************************************)
EXTENDS Integers, Sequences, FiniteSets, TLC

(***************************************************************************)
(* Bounds of the model.                                                    *)
(***************************************************************************)
\* number of handler goroutines that can be in flight at the same time
NumReqs == 2
\* most bytes a child writes to its stdout
MaxStdout == 2
\* most bytes a child writes to its stderr
MaxStderr == 1
\* a failing write to the response stops after fewer than MaxShort bytes
MaxShort == 2

Reqs == 1..NumReqs

\* byte values a child writes: 'O' and 'K'
Bytes == {79, 75}

\* exit statuses of a child that was started
ExitCodes == {0, 1}

(***************************************************************************)
(* Program constants.                                                      *)
(***************************************************************************)
\* const pythonScript = "capture.py"
pythonScript == "capture.py"

\* http.StatusOK and http.StatusInternalServerError
StatusOK == 200
StatusInternalServerError == 500

\* "Failed to capture fingerprint: "
FailedPrefix ==
  << 70, 97, 105, 108, 101, 100, 32, 116, 111, 32, 99, 97, 112, 116, 117,
     114, 101, 32, 102, 105, 110, 103, 101, 114, 112, 114, 105, 110, 116,
     58, 32 >>

\* "No data received from Python script"
NoDataMessage ==
  << 78, 111, 32, 100, 97, 116, 97, 32, 114, 101, 99, 101, 105, 118, 101,
     100, 32, 102, 114, 111, 109, 32, 80, 121, 116, 104, 111, 110, 32, 115,
     99, 114, 105, 112, 116 >>

\* the line feed that fmt.Fprintln appends
Newline == 10

ImagePng == "image/png"
TextPlain == "text/plain; charset=utf-8"

\* values of runtime.GOOS that the build script produces binaries for
GoosValues == {"linux", "windows"}

\* what os.Stat can find at the virtual-environment path
VenvStates == {"file", "absent", "unreadable"}

\* working directory of the server process (WORKDIR /app)
Cwd == << "app" >>

(***************************************************************************)
(* Interpreter resolution (main.go lines 30-45).                           *)
(***************************************************************************)
\* filepath.Join of relative components
Join(parts) == [rooted |-> FALSE, parts |-> parts]

\* filepath.Abs: a relative path is joined to the working directory; when
\* the working directory cannot be determined the result is the empty path
\* and an error, which line 43 drops
Abs(p, wdOk) ==
  IF p.rooted THEN p
  ELSE IF wdOk THEN [rooted |-> TRUE, parts |-> Cwd \o p.parts]
  ELSE Join(<< >>)

\* venvPythonPath as computed by lines 31-34
VenvPythonPath(os) ==
  IF os = "windows" THEN Join(<< "venv", "Scripts", "python.exe" >>)
                    ELSE Join(<< "venv", "bin", "python3" >>)

\* pythonExec as set by lines 36-39
DefaultPythonExec(os) ==
  IF os = "windows" THEN Join(<< "python" >>) ELSE Join(<< "python3" >>)

\* os.Stat(venvPythonPath): err == nil exactly when something is there
StatOk(fs) == fs = "file"

\* pythonExec as passed to exec.Command
ResolvePythonExec(os, fs, wdOk) ==
  IF StatOk(fs) THEN Abs(VenvPythonPath(os), wdOk) ELSE DefaultPythonExec(os)

(***************************************************************************)
(* cmd.Run (lines 47-54).                                                  *)
(***************************************************************************)
\* exec.Command(pythonExec, pythonScript)
Command(path) == [path |-> path, arg |-> pythonScript]

\* the handler's cmd outside lines 47-77
NoCommand == [path |-> Join(<< >>), arg |-> ""]

\* cmd.Run starts a child only for a command with a path: for the empty
\* path it returns the error "exec: no command"
HasPath(c) == Len(c.path.parts) > 0

\* err != nil after cmd.Run: the child could not be started or exited non-zero
RunFailed(started, code) == ~started \/ code # 0

(***************************************************************************)
(* The http.ResponseWriter of one request, as the handler drives it.       *)
(* status = 0 means that the header has not been written yet; ctype is     *)
(* the Content-Type that goes out with the header; body is the sequence    *)
(* of bytes the response stream has accepted; failed records that a Write  *)
(* returned an error.                                                      *)
(***************************************************************************)
\* the ResponseWriter the server hands to the handler
NewResponse == [status |-> 0, ctype |-> "", body |-> << >>, failed |-> FALSE]

\* w.Header().Set("Content-Type", v): no effect once the header is out
SetContentType(w, v) == IF w.status # 0 THEN w ELSE [w EXCEPT !.ctype = v]

\* w.WriteHeader(code): only the first call counts
WriteHeader(w, code) == IF w.status # 0 THEN w ELSE [w EXCEPT !.status = code]

\* w.Write starts by writing the header with 200 when none was written
StartWrite(w) == WriteHeader(w, StatusOK)

\* a stream that ends what it takes with a line feed, as fmt.Fprintln does
AcceptLine(w, data) == [w EXCEPT !.body = @ \o data \o << Newline >>]

\* the response stream takes the bytes data of the write in progress
Accept(w, data) == [w EXCEPT !.body = @ \o data]

\* w.Write returns an error: the connection failed
Fail(w) == [w EXCEPT !.failed = TRUE]

\* the message written as it is, as w.Write([]byte(msg)) does
ErrorTextBare(msg) == msg

\* what fmt.Fprintln hands to w.Write for the message msg
ErrorText(msg) == msg \o << Newline >>

\* http.Error(w, msg, code) up to its Fprintln: text/plain and the status
HttpErrorHeader(w, code) == WriteHeader(SetContentType(w, TextPlain), code)

\* a message that carries the child's stdout as well
RunErrorMessageWithStdout(out, err) == FailedPrefix \o out \o err

\* "Failed to capture fingerprint: "+stderrBuf.String()
RunErrorMessage(out, err) == FailedPrefix \o err

\* a handler that reports the error of io.Copy to the client
OnCopyErrorReported(w, buf) ==
  Accept(HttpErrorHeader(w, StatusInternalServerError),
         ErrorText(FailedPrefix))

\* a handler that sends the buffer again after a copy that failed
OnCopyErrorResend(w, buf) == Accept(w, buf)

\* lines 73-75: on an error of io.Copy the handler returns
OnCopyError(w, buf) == w

(***************************************************************************)
(* Observable events of one invocation, in program order.                  *)
(***************************************************************************)
\* a return that skips the deferred closure
ReturnWithoutLog(tr) == tr

\* the deferred closure of lines 26-28 runs when the handler returns
Return(tr) == Append(tr, "log.took")

\* lines 24 and 41-47: the clock is read, a successful probe is logged, and
\* the child is run
EnterEvents(fs) ==
  << "time.Now" >> \o (IF StatOk(fs) THEN << "log.found" >> ELSE << >>)
    \o << "cmd.Run" >>

\* lines 56-59
RunErrorEvents == << "log.failed", "log.stdout", "log.stderr", "http.Error" >>

\* lines 64-65
EmptyEvents == << "log.empty", "http.Error" >>

\* lines 70-72
SuccessEvents == << "Header.Set", "io.Copy" >>

(***************************************************************************)
(* State.                                                                  *)
(***************************************************************************)
VARIABLES
  goos,       \* runtime.GOOS of the running binary
  venv,       \* what the file system holds at the virtual-environment path
  pc,         \* per goroutine: "idle", "running", "waited", "writing",
              \* "done"
  cmd,        \* per goroutine: the command built at line 47
  stdoutBuf,  \* per goroutine: contents of stdoutBuf
  stderrBuf,  \* per goroutine: contents of stderrBuf
  runErr,     \* per goroutine: err != nil at line 55
  resp,       \* per goroutine: the response of the request; body holds
              \* the bytes the response has taken from the handler, failed
              \* tells that a write has returned an error
  writing,    \* per goroutine: the bytes given to the w.Write in progress
  trace       \* per goroutine: events of the invocation

vars == << goos, venv, pc, cmd, stdoutBuf, stderrBuf, runErr, resp, writing,
           trace >>

\* one buffer at package level, shared by the invocations: a new invocation
\* finds what a child of another one has written
SharedBuffer(r) ==
  LET busy == {q \in Reqs \ {r} : Len(stdoutBuf[q]) > 0}
  IN IF busy = {} THEN << >> ELSE stdoutBuf[CHOOSE q \in busy : TRUE]

\* var stdoutBuf, stderrBuf bytes.Buffer: the zero value is an empty buffer
NewBuffer(r) == << >>

Init ==
  /\ goos \in GoosValues
  /\ venv \in VenvStates
  /\ pc = [r \in Reqs |-> "idle"]
  /\ cmd = [r \in Reqs |-> NoCommand]
  /\ stdoutBuf = [r \in Reqs |-> << >>]
  /\ stderrBuf = [r \in Reqs |-> << >>]
  /\ runErr = [r \in Reqs |-> FALSE]
  /\ resp = [r \in Reqs |-> NewResponse]
  /\ writing = [r \in Reqs |-> << >>]
  /\ trace = [r \in Reqs |-> << >>]

(***************************************************************************)
(* The file system changes under the server: the virtual environment is    *)
(* created, removed or made unreadable.                                    *)
(***************************************************************************)
SetVenv(fs) ==
  /\ fs # venv
  /\ venv' = fs
  /\ UNCHANGED << goos, pc, cmd, stdoutBuf, stderrBuf, runErr, resp, writing,
                  trace >>

(***************************************************************************)
(* The server starts HandleCapture for a request on goroutine r as soon    *)
(* as the goroutine is free: http.HandleFunc registers the handler and     *)
(* net/http serves every request in a goroutine of its own.                *)
(***************************************************************************)
\* a server that holds a lock around the capture: one child at a time
MayEnterOneAtATime(r) ==
  /\ pc[r] \in {"idle", "done"}
  /\ \A q \in Reqs \ {r} : pc[q] # "running"

MayEnter(r) == pc[r] \in {"idle", "done"}

\* a handler that sends the header before it runs the child
EnterHeaderFirst(r, wdOk, started) ==
  /\ MayEnter(r)
  /\ cmd' = [cmd EXCEPT ![r] = Command(ResolvePythonExec(goos, venv, wdOk))]
  /\ started => HasPath(cmd'[r])
  /\ stdoutBuf' = [stdoutBuf EXCEPT ![r] = NewBuffer(r)]
  /\ stderrBuf' = [stderrBuf EXCEPT ![r] = NewBuffer(r)]
  /\ resp' = [resp EXCEPT ![r] =
                WriteHeader(SetContentType(NewResponse, ImagePng), StatusOK)]
  /\ trace' = [trace EXCEPT ![r] = EnterEvents(venv)]
  /\ runErr' = [runErr EXCEPT ![r] = RunFailed(started, 0)]
  /\ pc' = [pc EXCEPT ![r] = IF started THEN "running" ELSE "waited"]
  /\ UNCHANGED << goos, venv, writing >>

(***************************************************************************)
(* HandleCapture, lines 24-54 up to the point where cmd.Run blocks: a new  *)
(* request arrives on goroutine r, the interpreter is resolved, the        *)
(* buffers are created and the child is started.  When the child cannot    *)
(* be started cmd.Run returns the error at once.  wdOk tells whether the   *)
(* working directory can be determined at line 43, started whether the     *)
(* operating system starts the child.                                      *)
(***************************************************************************)
Enter(r, wdOk, started) ==
  /\ MayEnter(r)
  /\ cmd' = [cmd EXCEPT ![r] = Command(ResolvePythonExec(goos, venv, wdOk))]
  /\ started => HasPath(cmd'[r])
  /\ stdoutBuf' = [stdoutBuf EXCEPT ![r] = NewBuffer(r)]
  /\ stderrBuf' = [stderrBuf EXCEPT ![r] = NewBuffer(r)]
  /\ resp' = [resp EXCEPT ![r] = NewResponse]
  /\ trace' = [trace EXCEPT ![r] = EnterEvents(venv)]
  /\ runErr' = [runErr EXCEPT ![r] = RunFailed(started, 0)]
  /\ pc' = [pc EXCEPT ![r] = IF started THEN "running" ELSE "waited"]
  /\ UNCHANGED << goos, venv, writing >>

(***************************************************************************)
(* The child of r while cmd.Run waits for it: it writes to its stdout and  *)
(* stderr, which exec copies into the two buffers, and it exits.           *)
(***************************************************************************)
ChildWriteStdout(r, b) ==
  /\ pc[r] = "running"
  /\ Len(stdoutBuf[r]) < MaxStdout
  /\ stdoutBuf' = [stdoutBuf EXCEPT ![r] = Append(@, b)]
  /\ UNCHANGED << goos, venv, pc, cmd, stderrBuf, runErr, resp, writing,
                  trace >>

ChildWriteStderr(r, b) ==
  /\ pc[r] = "running"
  /\ Len(stderrBuf[r]) < MaxStderr
  /\ stderrBuf' = [stderrBuf EXCEPT ![r] = Append(@, b)]
  /\ UNCHANGED << goos, venv, pc, cmd, stdoutBuf, runErr, resp, writing,
                  trace >>

ChildExit(r, code) ==
  /\ pc[r] = "running"
  /\ runErr' = [runErr EXCEPT ![r] = RunFailed(TRUE, code)]
  /\ pc' = [pc EXCEPT ![r] = "waited"]
  /\ UNCHANGED << goos, venv, cmd, stdoutBuf, stderrBuf, resp, writing,
                  trace >>

(***************************************************************************)
(* HandleCapture after cmd.Run has returned, lines 55-77.  On each of its   *)
(* three paths the handler hands the body to w.Write, which waits for the  *)
(* client: main starts the server without a write timeout, so the write    *)
(* lasts as long as the client keeps the connection open without reading.  *)
(* The handler goes on to its return, the deferred closure and the end of  *)
(* its locals when the write ends.                                         *)
(***************************************************************************)
\* the handler returns: its locals are gone
Discard(r) ==
  /\ cmd' = [cmd EXCEPT ![r] = NoCommand]
  /\ stdoutBuf' = [stdoutBuf EXCEPT ![r] = << >>]
  /\ stderrBuf' = [stderrBuf EXCEPT ![r] = << >>]
  /\ runErr' = [runErr EXCEPT ![r] = FALSE]
  /\ writing' = [writing EXCEPT ![r] = << >>]
  /\ pc' = [pc EXCEPT ![r] = "done"]

\* the bytes of the write in progress that the stream has not taken yet
Pending(r) == SubSeq(writing[r], Len(resp[r].body) + 1, Len(writing[r]))

\* lines 55-59: err != nil; http.Error sets the status and starts to write
HandleRunError(r) ==
  /\ pc[r] = "waited"
  /\ runErr[r]
  /\ resp' = [resp EXCEPT ![r] =
                HttpErrorHeader(@, StatusInternalServerError)]
  /\ writing' = [writing EXCEPT ![r] =
                   ErrorText(RunErrorMessage(stdoutBuf[r], stderrBuf[r]))]
  /\ trace' = [trace EXCEPT ![r] = @ \o RunErrorEvents]
  /\ pc' = [pc EXCEPT ![r] = "writing"]
  /\ UNCHANGED << goos, venv, cmd, stdoutBuf, stderrBuf, runErr >>

\* lines 63-65: stdoutBuf.Len() == 0; http.Error sets the status and
\* starts to write the fixed message
HandleEmpty(r) ==
  /\ pc[r] = "waited"
  /\ ~runErr[r]
  /\ Len(stdoutBuf[r]) = 0
  /\ resp' = [resp EXCEPT ![r] =
                HttpErrorHeader(@, StatusInternalServerError)]
  /\ writing' = [writing EXCEPT ![r] = ErrorText(NoDataMessage)]
  /\ trace' = [trace EXCEPT ![r] = @ \o EmptyEvents]
  /\ pc' = [pc EXCEPT ![r] = "writing"]
  /\ UNCHANGED << goos, venv, cmd, stdoutBuf, stderrBuf, runErr >>

\* lines 69-72: the header is set and io.Copy hands the buffer to w.Write
HandleSuccess(r) ==
  /\ pc[r] = "waited"
  /\ ~runErr[r]
  /\ Len(stdoutBuf[r]) # 0
  /\ resp' = [resp EXCEPT ![r] = StartWrite(SetContentType(@, ImagePng))]
  /\ writing' = [writing EXCEPT ![r] = stdoutBuf[r]]
  /\ trace' = [trace EXCEPT ![r] = @ \o SuccessEvents]
  /\ pc' = [pc EXCEPT ![r] = "writing"]
  /\ UNCHANGED << goos, venv, cmd, stdoutBuf, stderrBuf, runErr >>

\* the client reads a little: the response takes one more byte and the
\* write goes on waiting
WriteSome(r) ==
  /\ pc[r] = "writing"
  /\ Len(Pending(r)) > 1
  /\ Len(resp[r].body) + 1 < MaxShort
  /\ resp' = [resp EXCEPT ![r] = Accept(@, << Head(Pending(r)) >>)]
  /\ UNCHANGED << goos, venv, pc, cmd, stdoutBuf, stderrBuf, runErr, writing,
                  trace >>

\* w.Write returns an error, with the count of the bytes taken so far or,
\* when all is set, with the full count: the error can come after the last
\* byte has been taken.  http.Error drops the error and the handler
\* returns at line 60 or 66; line 72 drops the count and lines 73-75
\* return on the error.
WriteFails(r, all) ==
  /\ pc[r] = "writing"
  /\ resp' = [resp EXCEPT ![r] =
                LET w == Fail(IF all THEN Accept(@, Pending(r)) ELSE @)
                IN IF runErr[r] \/ Len(stdoutBuf[r]) = 0 THEN w
                   ELSE OnCopyError(w, stdoutBuf[r])]
  /\ trace' = [trace EXCEPT ![r] = Return(@)]
  /\ Discard(r)
  /\ UNCHANGED << goos, venv >>

\* the response takes the rest: w.Write returns the full count without
\* error and the handler returns (lines 60, 66 and 77)
WriteCompletes(r) ==
  /\ pc[r] = "writing"
  /\ resp' = [resp EXCEPT ![r] = Accept(@, Pending(r))]
  /\ trace' = [trace EXCEPT ![r] = Return(@)]
  /\ Discard(r)
  /\ UNCHANGED << goos, venv >>

Next ==
  \/ \E fs \in VenvStates : SetVenv(fs)
  \/ \E r \in Reqs, wdOk, started \in BOOLEAN : Enter(r, wdOk, started)
  \/ \E r \in Reqs, b \in Bytes : ChildWriteStdout(r, b)
  \/ \E r \in Reqs, b \in Bytes : ChildWriteStderr(r, b)
  \/ \E r \in Reqs, code \in ExitCodes : ChildExit(r, code)
  \/ \E r \in Reqs : HandleRunError(r)
  \/ \E r \in Reqs : HandleEmpty(r)
  \/ \E r \in Reqs : HandleSuccess(r)
  \/ \E r \in Reqs : WriteSome(r)
  \/ \E r \in Reqs, all \in BOOLEAN : WriteFails(r, all)
  \/ \E r \in Reqs : WriteCompletes(r)

Spec == Init /\ [][Next]_vars

(***************************************************************************)
(* The Go scheduler runs every runnable goroutine: a handler whose         *)
(* cmd.Run has returned goes on to its write.  Nothing makes a request     *)
(* arrive, the file system change, a child write or exit, or a client      *)
(* read what is written to it.                                             *)
(***************************************************************************)
FairSpec ==
  /\ Spec
  /\ \A r \in Reqs : /\ WF_vars(HandleRunError(r))
                     /\ WF_vars(HandleEmpty(r))
                     /\ WF_vars(HandleSuccess(r))

(***************************************************************************)
(* One goroutine: the server handles one request after the other on        *)
(* goroutine First, with every input of the model.                         *)
(***************************************************************************)
First == CHOOSE r \in Reqs : \A q \in Reqs : r <= q

HandlerNext ==
  \/ \E fs \in VenvStates : SetVenv(fs)
  \/ \E wdOk, started \in BOOLEAN : Enter(First, wdOk, started)
  \/ \E b \in Bytes : ChildWriteStdout(First, b)
  \/ \E b \in Bytes : ChildWriteStderr(First, b)
  \/ \E code \in ExitCodes : ChildExit(First, code)
  \/ HandleRunError(First)
  \/ HandleEmpty(First)
  \/ HandleSuccess(First)
  \/ WriteSome(First)
  \/ \E all \in BOOLEAN : WriteFails(First, all)
  \/ WriteCompletes(First)

HandlerSpec == Init /\ [][HandlerNext]_vars

HandlerFairSpec ==
  /\ HandlerSpec
  /\ WF_vars(HandleRunError(First))
  /\ WF_vars(HandleEmpty(First))
  /\ WF_vars(HandleSuccess(First))

(***************************************************************************)
(* Vocabulary of the properties.                                           *)
(***************************************************************************)
\* s is an initial part of t
IsPrefix(s, t) == Len(s) <= Len(t) /\ s = SubSeq(t, 1, Len(s))

\* the number of times e occurs in the sequence s
Count(s, e) == Cardinality({i \in 1..Len(s) : s[i] = e})

\* the positions of the event e in the sequence s
Positions(s, e) == {i \in 1..Len(s) : s[i] = e}

\* this step is the first step of a new invocation on goroutine r
Enters(r) == pc[r] \in {"idle", "done"} /\ pc'[r] \in {"running", "waited"}

\* cmd.Run of r has returned and the handler has not
Handling(r) == pc[r] \in {"waited", "writing"}

\* this step is the return of the invocation on goroutine r
Returns(r) == Handling(r) /\ pc'[r] = "done"

\* cmd.Run of r came back without error and stdout holds at least one byte
ChildSucceeded(r) == Handling(r) /\ ~runErr[r] /\ Len(stdoutBuf[r]) > 0

\* cmd.Run of r came back with an error
ChildFailed(r) == Handling(r) /\ runErr[r]

\* cmd.Run of r came back without error and stdout holds nothing
ChildSilent(r) == Handling(r) /\ ~runErr[r] /\ Len(stdoutBuf[r]) = 0

(***************************************************************************)
(* C1.  When the child exits 0 with N > 0 bytes in the stdout buffer, the  *)
(* response has status 200 and Content-Type image/png and, when the copy   *)
(* to the client does not fail, its body is exactly those N bytes in the   *)
(* same order.                                                             *)
(***************************************************************************)
C1_SuccessForwardsStdout ==
  [][\A r \in Reqs :
       (ChildSucceeded(r) /\ Returns(r)) =>
         /\ resp'[r].status = 200
         /\ resp'[r].ctype = "image/png"
         /\ (~resp'[r].failed => resp'[r].body = stdoutBuf[r])]_vars

\* a request answered 200, image/png, with the two bytes "OK" of its child
C1_Witness ==
  \E r \in Reqs :
    /\ pc[r] = "done"
    /\ resp[r] = [status |-> 200, ctype |-> "image/png",
                  body |-> << 79, 75 >>, failed |-> FALSE]

(***************************************************************************)
(* C2.  When the child exits non-zero or cannot be started, the response   *)
(* has status 500, its body is the prefix "Failed to capture               *)
(* fingerprint: " followed by the contents of the stderr buffer, whatever  *)
(* the stdout buffer holds, and Content-Type is not image/png.             *)
(***************************************************************************)
\* the claim as stated, for the responses whose write did not fail: the
\* body ends with the last byte of stderr
C2_AsStated ==
  [][\A r \in Reqs :
       (ChildFailed(r) /\ Returns(r) /\ ~resp'[r].failed) =>
         /\ resp'[r].status = 500
         /\ resp'[r].ctype # "image/png"
         /\ resp'[r].body = FailedPrefix \o stderrBuf[r]]_vars

\* C2 as amended: status 500, Content-Type never image/png, and the body
\* is an initial part of prefix + stderr + line feed, all of it when the
\* write to the client does not fail; no byte of stdout is in it
C2_FailureReportsStderr ==
  [][\A r \in Reqs :
       (ChildFailed(r) /\ Returns(r)) =>
         LET text == FailedPrefix \o stderrBuf[r] \o << 10 >>
         IN /\ resp'[r].status = 500
            /\ resp'[r].ctype # "image/png"
            /\ IsPrefix(resp'[r].body, text)
            /\ (~resp'[r].failed => resp'[r].body = text)]_vars

\* a request answered 500 with the prefix, the stderr byte 'K' and a line feed
C2_Witness ==
  \E r \in Reqs :
    /\ pc[r] = "done"
    /\ resp[r].status = 500
    /\ ~resp[r].failed
    /\ resp[r].body = FailedPrefix \o << 75, 10 >>

(***************************************************************************)
(* C3.  When the child exits 0 and the stdout buffer is empty, the         *)
(* response has status 500 and its body is the fixed message "No data      *)
(* received from Python script", whatever the stderr buffer holds.         *)
(***************************************************************************)
\* the claim as stated, for the responses whose write did not fail: the
\* body is the message and nothing else
C3_AsStated ==
  [][\A r \in Reqs :
       (ChildSilent(r) /\ Returns(r) /\ ~resp'[r].failed) =>
         /\ resp'[r].status = 500
         /\ resp'[r].body = NoDataMessage]_vars

\* C3 as amended: status 500 and the body is an initial part of the
\* message + line feed, all of it when the write to the client does not
\* fail; stderr does not enter the response
C3_EmptyOutputIsAnError ==
  [][\A r \in Reqs :
       (ChildSilent(r) /\ Returns(r)) =>
         LET text == NoDataMessage \o << 10 >>
         IN /\ resp'[r].status = 500
            /\ resp'[r].ctype # "image/png"
            /\ IsPrefix(resp'[r].body, text)
            /\ (~resp'[r].failed => resp'[r].body = text)]_vars

\* a request answered 500 with the message and a line feed
C3_Witness ==
  \E r \in Reqs :
    /\ pc[r] = "done"
    /\ resp[r].status = 500
    /\ ~resp[r].failed
    /\ resp[r].body = NoDataMessage \o << 10 >>

(***************************************************************************)
(* C4.  Interpreter resolution: when the probe of the OS-specific          *)
(* virtual-environment path succeeds the child is run with that path in    *)
(* absolute form; when the file is absent or the probe fails otherwise     *)
(* the child is run with the default name of the OS family.  The choice    *)
(* depends on the OS family and the probe of the current request only,     *)
(* and the probe's failure does not reach the client.                      *)
(***************************************************************************)
\* C4 as stated: on every entry the command is the interpreter of the
\* virtual environment in absolute form when the probe succeeds and the
\* default name of the OS family otherwise, and nothing is written to the
\* response
C4_InterpreterResolution ==
  [][\A r \in Reqs :
       Enters(r) =>
         /\ cmd'[r].arg = "capture.py"
         /\ (goos # "windows" /\ venv = "file") =>
              cmd'[r].path = [rooted |-> TRUE,
                              parts |-> Cwd \o << "venv", "bin", "python3" >>]
         /\ (goos = "windows" /\ venv = "file") =>
              cmd'[r].path =
                [rooted |-> TRUE,
                 parts |-> Cwd \o << "venv", "Scripts", "python.exe" >>]
         /\ (goos # "windows" /\ venv # "file") =>
              cmd'[r].path = [rooted |-> FALSE, parts |-> << "python3" >>]
         /\ (goos = "windows" /\ venv # "file") =>
              cmd'[r].path = [rooted |-> FALSE, parts |-> << "python" >>]
         /\ resp'[r].status = 0
         /\ resp'[r].body = << >>
         /\ Count(trace'[r], "http.Error") = 0]_vars

\* the probe succeeded and was logged, the working directory could not be
\* determined at line 43: the command has the empty path, cmd.Run has
\* failed and the request is answered 500
C4_Witness ==
  \E r \in Reqs :
    /\ pc[r] = "writing"
    /\ cmd[r] = [path |-> [rooted |-> FALSE, parts |-> << >>],
                 arg |-> "capture.py"]
    /\ Count(trace[r], "log.found") = 1
    /\ runErr[r]
    /\ resp[r].status = 500

(***************************************************************************)
(* C5.  The bytes of the stdout buffer delivered to the client are either  *)
(* none or the whole buffer, also when the copy into the response          *)
(* reports an error.                                                       *)
(***************************************************************************)
\* the claim as stated: none or all
C5_AsStated ==
  [][\A r \in Reqs :
       (ChildSucceeded(r) /\ Returns(r)) =>
         resp'[r].body \in {<< >>, stdoutBuf[r]}]_vars

\* C5 as amended: the bytes delivered are an initial part of the buffer,
\* in order and with nothing added: none, some or all of them; before the
\* child has terminated none are delivered, and when the child failed with
\* bytes in the buffer the body holds the error text only
C5_ForwardsAnInitialPart ==
  [][\A r \in Reqs :
       /\ ChildSucceeded(r) => IsPrefix(resp'[r].body, stdoutBuf[r])
       /\ pc'[r] \in {"idle", "running", "waited"} => resp'[r].body = << >>
       /\ (ChildFailed(r) /\ Len(stdoutBuf[r]) > 0) =>
            IsPrefix(resp'[r].body, FailedPrefix \o stderrBuf[r] \o << 10 >>)
     ]_vars

\* a copy that failed after the first of the two bytes of the buffer
C5_Witness ==
  \E r \in Reqs :
    /\ pc[r] = "done"
    /\ resp[r].status = 200
    /\ resp[r].failed
    /\ Len(resp[r].body) = 1

(***************************************************************************)
(* C6.  No state survives a request: every invocation starts with empty    *)
(* stdout and stderr buffers and an untouched response and resolves the    *)
(* interpreter from the file system as it is then; a step of one           *)
(* invocation changes nothing of another; and the response an invocation   *)
(* produces is determined by its own child's outcome (error of cmd.Run,    *)
(* stdout, stderr) and its own connection, whatever the requests before    *)
(* it or beside it did.                                                    *)
(***************************************************************************)
\* everything goroutine r holds
Own(r) ==
  << pc[r], cmd[r], stdoutBuf[r], stderrBuf[r], runErr[r], resp[r],
     writing[r], trace[r] >>

\* the status the outcome table gives for the child's outcome
OutcomeStatus(failed, out) == IF failed \/ Len(out) = 0 THEN 500 ELSE 200

\* the body the outcome table gives for the child's outcome
OutcomeBody(failed, out, err) ==
  IF failed THEN FailedPrefix \o err \o << 10 >>
  ELSE IF Len(out) = 0 THEN NoDataMessage \o << 10 >>
  ELSE out

C6_NoStateSurvives ==
  [][/\ Cardinality({r \in Reqs : Own(r)' # Own(r)}) <= 1
     /\ \A r \in Reqs :
       /\ Enters(r) =>
            /\ stdoutBuf'[r] = << >>
            /\ stderrBuf'[r] = << >>
            /\ resp'[r] = [status |-> 0, ctype |-> "", body |-> << >>,
                           failed |-> FALSE]
            /\ (cmd'[r].path \in {[rooted |-> FALSE, parts |-> << "python3" >>],
                                  [rooted |-> FALSE, parts |-> << "python" >>]})
                 <=> (venv # "file")
       /\ Returns(r) =>
            LET body == OutcomeBody(runErr[r], stdoutBuf[r], stderrBuf[r])
            IN /\ resp'[r].status = OutcomeStatus(runErr[r], stdoutBuf[r])
               /\ IsPrefix(resp'[r].body, body)
               /\ ~resp'[r].failed => resp'[r].body = body]_vars

\* a request is answered 200 with its child's two bytes "OO" beside a
\* request that failed and whose write of the error text failed
C6_Witness ==
  \E r, q \in Reqs :
    /\ pc[q] = "done" /\ resp[q].status = 500 /\ resp[q].failed
    /\ pc[r] = "done" /\ resp[r].status = 200 /\ ~resp[r].failed
    /\ resp[r].body = << 79, 79 >>

(***************************************************************************)
(* C7.  Every invocation that returns emits the elapsed-time log line      *)
(* exactly once, on every exit path, after its last write to the           *)
(* response; the clock is read on entry, before the child is run, so the   *)
(* time logged spans the run of the child.                                 *)
(***************************************************************************)
\* the events that write to the response
ResponseWrites == {"http.Error", "Header.Set", "io.Copy"}

C7_ElapsedLoggedOnceAtExit ==
  \A r \in Reqs :
    /\ pc[r] = "idle" => trace[r] = << >>
    /\ pc[r] \in {"running", "waited", "writing"} =>
         Count(trace[r], "log.took") = 0
    /\ pc[r] = "done" =>
         /\ Count(trace[r], "log.took") = 1
         /\ trace[r][Len(trace[r])] = "log.took"
         /\ trace[r][1] = "time.Now"
         /\ Count(trace[r], "time.Now") = 1
         /\ \E i \in 2..(Len(trace[r]) - 1) : trace[r][i] = "cmd.Run"
         /\ \E i \in 2..(Len(trace[r]) - 1) : trace[r][i] \in ResponseWrites
         /\ \A i \in 1..Len(trace[r]) :
              trace[r][i] \in ResponseWrites => i < Len(trace[r])

\* an invocation has returned after a failed copy and has logged the
\* elapsed time last, after the probe's line, the run and the copy
C7_Witness ==
  \E r \in Reqs :
    /\ pc[r] = "done" /\ resp[r].status = 200 /\ resp[r].failed
    /\ trace[r] = << "time.Now", "log.found", "cmd.Run", "Header.Set",
                     "io.Copy", "log.took" >>

(***************************************************************************)
(* C8.  When the copy of the stdout buffer into the response fails, the    *)
(* handler writes nothing more to the response, the status stays 200 and   *)
(* the Content-Type image/png, no error body is written, the copy is not   *)
(* retried and the child is not run again, and the handler returns.        *)
(***************************************************************************)
C8_CopyErrorAbandonsResponse ==
  [][\A r \in Reqs :
       (ChildSucceeded(r) /\ Returns(r) /\ resp'[r].failed) =>
         /\ resp'[r].status = 200
         /\ resp'[r].ctype = "image/png"
         /\ \E k \in 0..Len(stdoutBuf[r]) :
              resp'[r].body = SubSeq(stdoutBuf[r], 1, k)
         /\ Count(trace'[r], "io.Copy") = 1
         /\ Count(trace'[r], "cmd.Run") = 1
         /\ Count(trace'[r], "http.Error") = 0
         /\ resp[r].status = 200
         /\ IsPrefix(resp[r].body, resp'[r].body)
         /\ trace'[r] = trace[r] \o << "log.took" >>
         /\ pc'[r] = "done"]_vars

\* a copy that failed before the first byte: 200, image/png, empty body
C8_Witness ==
  \E r \in Reqs :
    /\ pc[r] = "done"
    /\ resp[r] = [status |-> 200, ctype |-> "image/png", body |-> << >>,
                  failed |-> TRUE]

(***************************************************************************)
(* C9.  Captures are not serialised: a goroutine that is free can start    *)
(* its child whatever the other invocations are doing, so that all         *)
(* NumReqs children can run at the same time; and every invocation runs    *)
(* exactly one child, never a second one.                                  *)
(***************************************************************************)
C9_NoMutualExclusionNoRetry ==
  \A r \in Reqs :
    /\ pc[r] \in {"idle", "done"} => ENABLED Enter(r, TRUE, TRUE)
    /\ pc[r] = "idle" => Count(trace[r], "cmd.Run") = 0
    /\ pc[r] # "idle" => Count(trace[r], "cmd.Run") = 1

\* every goroutine has a child running
C9_Witness == \A r \in Reqs : pc[r] = "running" /\ cmd[r].arg = "capture.py"

(***************************************************************************)
(* C10.  The handler blocks on its child without timeout: nothing of the   *)
(* response is written and the handler has not returned while the child    *)
(* runs, only the exit of the child ends the wait, and once cmd.Run has    *)
(* returned the invocation eventually returns with exactly one response,   *)
(* 200 or 500.                                                             *)
(***************************************************************************)
\* nothing is written and nothing is logged while the child runs
C10_NothingBeforeExit ==
  \A r \in Reqs :
    pc[r] = "running" =>
      /\ resp[r].status = 0
      /\ resp[r].ctype = ""
      /\ resp[r].body = << >>
      /\ Count(trace[r], "log.took") = 0

\* the wait ends with the child only, and the status of a response, once
\* written, stays until the next request
C10_OneResponse ==
  \A r \in Reqs :
    /\ (pc[r] = "running" /\ pc'[r] # "running") =>
         /\ pc'[r] = "waited"
         /\ resp'[r] = resp[r]
         /\ stdoutBuf'[r] = stdoutBuf[r]
         /\ stderrBuf'[r] = stderrBuf[r]
    /\ (pc[r] = "done" /\ pc'[r] = "done") => resp'[r] = resp[r]
    /\ (resp[r].status # 0 /\ ~Enters(r)) => resp'[r].status = resp[r].status
    /\ pc'[r] \in {"writing", "done"} => resp'[r].status \in {200, 500}

\* the claim as stated: once cmd.Run has returned the invocation returns
C10_AsStated ==
  \A r \in Reqs :
    (pc[r] = "waited") ~> (pc[r] = "done" /\ resp[r].status \in {200, 500})

\* C10 as amended: once cmd.Run has returned the invocation eventually
\* has the status of its one response written, 200 or 500; it returns
\* when its write to the client ends, which nothing in the code enforces
C10_BlocksUntilChildExits ==
  /\ []C10_NothingBeforeExit
  /\ [][C10_OneResponse]_vars
  /\ \A r \in Reqs :
       (pc[r] = "waited") ~>
          (pc[r] \in {"writing", "done"} /\ resp[r].status \in {200, 500})

\* the child has exited 0 with two bytes, the handler has written 200 and
\* the client has taken one byte: the handler waits in io.Copy and has not
\* logged the elapsed time
C10_Witness ==
  \E r \in Reqs :
    /\ pc[r] = "writing"
    /\ resp[r].status = 200
    /\ Len(stdoutBuf[r]) = 2
    /\ Len(resp[r].body) = 1
    /\ ~resp[r].failed
    /\ Count(trace[r], "log.took") = 0

====
